---- MODULE Spec2Model ----
(***************************************************************************)
(* Model of src/scraper.py: one run of main(), the browser strategy        *)
(* AdvancedScraper.scrape_with_browser, the HTTP fallback                  *)
(* AdvancedScraper.scrape_with_requests, and the save/callback tail.       *)
(* Python dicts are functions from key strings to values; pc is the        *)
(* position of the single task inside main() and its callees.              *)
(***************************************************************************)
EXTENDS Integers, Sequences, FiniteSets, TLC

VARIABLES
    pc,              \* position in main() / scrape_with_browser()
    target_url,      \* os.getenv('TARGET_URL', ...)
    hub_url,         \* os.getenv('SYNAPSE_HUB_URL')
    api_key,         \* os.getenv('SENSORY_API_KEY')
    page_javascript, \* whether the fetched document mentions "javascript"
    result,          \* the result dict of main()
    playwright,      \* the async_playwright() context: none / started / stopped
    browser,         \* the launched browser: none / open / closed
    pending,         \* what the try block of scrape_with_browser is returning
    browser_result,  \* value returned by scrape_with_browser ({} before that)
    fallback_result, \* value returned by scrape_with_requests ({} before that)
    exc,             \* str(e) of the exception in flight towards main()'s handler
    text_length_in,  \* length of the text page.evaluate() handed back
    http_calls,      \* URLs scrape_with_requests was called with, in order
    save_attempts,   \* how many times the save block was entered
    results_json,    \* the dicts json.dump wrote to results.json, in order
    callback_posts,  \* the payloads handed to requests.post, in order
    callback_log,    \* what the callback block printed
    raised_from      \* the step whose exception left main(), or "none"

vars == << pc, target_url, hub_url, api_key, page_javascript, result,
           playwright, browser, pending, browser_result, fallback_result, exc,
           text_length_in, http_calls, save_attempts, results_json,
           callback_posts, callback_log, raised_from >>

----------------------------------------------------------------------------
(* Bounds of the model *)

NumUrls == 2
MaxExtra == 2

(* Program constants *)

TruncLimit == 2000

Urls == 1..NumUrls

\* Lengths of page text tried: short ones and the ones around the limit.
TextLens == (0..MaxExtra) \cup ((TruncLimit - MaxExtra)..(TruncLimit + MaxExtra + 1))

None == "None"
EnvValues == {None, "", "set"}

----------------------------------------------------------------------------
(* Python helpers *)

EmptyDict == [k \in {} |-> 0]

\* dict.update(d)
Update(r, d) ==
    [k \in (DOMAIN r) \cup (DOMAIN d) |-> IF k \in DOMAIN d THEN d[k] ELSE r[k]]

\* dict.get(k, default)
Get(r, k, default) == IF k \in DOMAIN r THEN r[k] ELSE default

\* truth value of an Optional[str]
Truthy(s) == s # None /\ s # ""

Range(s) == {s[i] : i \in DOMAIN s}

\* A page text of n characters.
MkText(n) == [i \in 1..n |-> IF i % 3 = 0 THEN "a" ELSE IF i % 3 = 1 THEN "b" ELSE " "]

Ellipsis == <<".", ".", ".">>

TruncateNoEllipsis(text_content) ==
    IF Len(text_content) > TruncLimit
    THEN SubSeq(text_content, 1, TruncLimit)
    ELSE text_content

\* text_content[:2000] + "..." if len(text_content) > 2000 else text_content
Truncate(text_content) ==
    IF Len(text_content) > TruncLimit
    THEN SubSeq(text_content, 1, TruncLimit) \o Ellipsis
    ELSE text_content

----------------------------------------------------------------------------
(* Initial state: main() has read its configuration and built result. *)

Init ==
    /\ pc = "async_playwright"
    /\ target_url \in Urls
    /\ hub_url \in EnvValues
    /\ api_key \in EnvValues
    /\ page_javascript \in BOOLEAN
    /\ result = [url |-> target_url, status |-> "started",
                 component |-> "sensory-neurons-advanced",
                 data |-> EmptyDict, metadata |-> EmptyDict]
    /\ playwright = "none"
    /\ browser = "none"
    /\ pending = EmptyDict
    /\ browser_result = EmptyDict
    /\ fallback_result = EmptyDict
    /\ exc = ""
    /\ text_length_in = 0
    /\ http_calls = << >>
    /\ save_attempts = 0
    /\ results_json = << >>
    /\ callback_posts = << >>
    /\ callback_log = "none"
    /\ raised_from = "none"

----------------------------------------------------------------------------
(* AdvancedScraper.scrape_with_browser *)

\* str(e) and f'Timeout: {e}' are kept as the sequence of their parts.
Str(e) == << e >>
NonEmpty(parts) == \E i \in DOMAIN parts : parts[i] # ""

\* except PlaywrightTimeoutError as e: return {...}
TimeoutOutcome(e) ==
    [success |-> FALSE, error |-> << "Timeout: ", e >>, method |-> "playwright_timeout"]

\* except Exception as e: return {...}
ErrorOutcome(e) ==
    [success |-> FALSE, error |-> Str(e), method |-> "playwright_error"]

\* return {'success': True, ...} at the end of the try block
SuccessOutcome(text_content) ==
    [success |-> TRUE, method |-> "playwright_browser_automation",
     text_content |-> Truncate(text_content),
     text_length |-> Len(text_content)]

\* An exception raised outside the try block leaves scrape_with_browser: the
\* async with block is exited, browser.close() is not reached.
SetupFault(e) ==
    /\ exc' = e
    /\ playwright' = IF playwright = "started" THEN "stopped" ELSE playwright
    /\ pc' = "except"

\* A step inside the try block: on success go on, otherwise the matching
\* except clause builds the outcome and control reaches the finally clause.
InSession(o, e, next) ==
    /\ pending' = CASE o = "ok" -> pending
                    [] o = "timeout" -> TimeoutOutcome(e)
                    [] OTHER -> ErrorOutcome(e)
    /\ pc' = IF o = "ok" THEN next ELSE "finally"

\* async with async_playwright() as p
AsyncPlaywright ==
    /\ pc = "async_playwright"
    /\ \E o \in {"ok", "error"} :
         IF o = "ok"
         THEN /\ playwright' = "started"
              /\ pc' = "launch"
              /\ exc' = exc
         ELSE SetupFault("playwright driver failed to start")
    /\ UNCHANGED << target_url, hub_url, api_key, page_javascript, result, browser,
                    pending, browser_result, fallback_result, text_length_in,
                    http_calls, save_attempts, results_json, callback_posts,
                    callback_log, raised_from >>

\* browser = await p.chromium.launch(...)
Launch ==
    /\ pc = "launch"
    /\ \E o \in {"ok", "error"} :
         IF o = "ok"
         THEN /\ browser' = "open"
              /\ pc' = "new_context"
              /\ UNCHANGED << exc, playwright >>
         ELSE /\ SetupFault("chromium launch failed")
              /\ browser' = browser
    /\ UNCHANGED << target_url, hub_url, api_key, page_javascript, result,
                    pending, browser_result, fallback_result, text_length_in,
                    http_calls, save_attempts, results_json, callback_posts,
                    callback_log, raised_from >>

\* context = await browser.new_context(...)
NewContext ==
    /\ pc = "new_context"
    /\ \E o \in {"ok", "error"} :
         IF o = "ok"
         THEN /\ pc' = "add_init_script"
              /\ UNCHANGED << exc, playwright >>
         ELSE SetupFault("new_context failed")
    /\ UNCHANGED << target_url, hub_url, api_key, page_javascript, result, browser,
                    pending, browser_result, fallback_result, text_length_in,
                    http_calls, save_attempts, results_json, callback_posts,
                    callback_log, raised_from >>

\* await context.add_init_script(...)
AddInitScript ==
    /\ pc = "add_init_script"
    /\ \E o \in {"ok", "error"} :
         IF o = "ok"
         THEN /\ pc' = "new_page"
              /\ UNCHANGED << exc, playwright >>
         ELSE SetupFault("add_init_script failed")
    /\ UNCHANGED << target_url, hub_url, api_key, page_javascript, result, browser,
                    pending, browser_result, fallback_result, text_length_in,
                    http_calls, save_attempts, results_json, callback_posts,
                    callback_log, raised_from >>

\* page = await context.new_page()
NewPage ==
    /\ pc = "new_page"
    /\ \E o \in {"ok", "error"} :
         IF o = "ok"
         THEN /\ pc' = "goto"
              /\ UNCHANGED << exc, playwright >>
         ELSE SetupFault("new_page failed")
    /\ UNCHANGED << target_url, hub_url, api_key, page_javascript, result, browser,
                    pending, browser_result, fallback_result, text_length_in,
                    http_calls, save_attempts, results_json, callback_posts,
                    callback_log, raised_from >>

\* await page.goto(url, wait_until='networkidle', timeout=30000)
Goto ==
    /\ pc = "goto"
    /\ \E o \in {"ok", "timeout", "error"} : InSession(o, "goto failed", "screenshot")
    /\ UNCHANGED << target_url, hub_url, api_key, page_javascript, result,
                    playwright, browser, browser_result, fallback_result, exc,
                    text_length_in, http_calls, save_attempts, results_json,
                    callback_posts, callback_log, raised_from >>

\* await asyncio.sleep(3); await page.screenshot(...)
Screenshot ==
    /\ pc = "screenshot"
    /\ \E o \in {"ok", "timeout", "error"} : InSession(o, "screenshot failed", "evaluate")
    /\ UNCHANGED << target_url, hub_url, api_key, page_javascript, result,
                    playwright, browser, browser_result, fallback_result, exc,
                    text_length_in, http_calls, save_attempts, results_json,
                    callback_posts, callback_log, raised_from >>

\* title = await page.title(); the page.evaluate(...) calls; the return statement
Evaluate ==
    /\ pc = "evaluate"
    /\ \/ \E o \in {"timeout", "error"} :
            /\ InSession(o, "evaluate failed", "finally")
            /\ text_length_in' = text_length_in
       \/ \E n \in TextLens :
            /\ text_length_in' = n
            /\ pending' = SuccessOutcome(MkText(n))
            /\ pc' = "finally"
    /\ UNCHANGED << target_url, hub_url, api_key, page_javascript, result,
                    playwright, browser, browser_result, fallback_result, exc,
                    http_calls, save_attempts, results_json, callback_posts,
                    callback_log, raised_from >>

\* finally: await browser.close(), then the async with block is exited and the
\* pending value is returned; an exception from close() replaces the return.
Finally ==
    /\ pc = "finally"
    /\ playwright' = "stopped"
    /\ \E o \in {"ok", "error"} :
         IF o = "ok"
         THEN /\ browser' = "closed"
              /\ browser_result' = pending
              /\ pc' = "check"
              /\ exc' = exc
         ELSE /\ browser' = browser
              /\ browser_result' = browser_result
              /\ exc' = "browser close failed"
              /\ pc' = "except"
    /\ UNCHANGED << target_url, hub_url, api_key, page_javascript, result,
                    pending, fallback_result, text_length_in, http_calls,
                    save_attempts, results_json, callback_posts, callback_log,
                    raised_from >>

----------------------------------------------------------------------------
(* AdvancedScraper.scrape_with_requests *)

\* What requests.get can come back with: no response at all (transport
\* failure or timeout) or a response with a status code.
HttpReplies ==
    {[kind |-> "transport_error", status_code |-> 0]}
    \cup {[kind |-> "response", status_code |-> c] : c \in {200, 404, 500}}

\* response.raise_for_status() raises for 4xx and 5xx
RaisesForStatus(status_code) == status_code >= 400 /\ status_code < 600

\* str(e) of the exception caught in scrape_with_requests
RequestsError(reply) ==
    IF reply.kind = "transport_error" THEN Str("connection failed")
    ELSE IF reply.status_code < 500 THEN Str("Client Error")
    ELSE Str("Server Error")

scrape_with_requests(url, reply) ==
    IF reply.kind = "transport_error" \/ RaisesForStatus(reply.status_code)
    THEN [success |-> FALSE, error |-> RequestsError(reply), method |-> "requests_error"]
    ELSE [success |-> TRUE, method |-> "requests_fallback",
          status_code |-> reply.status_code]

----------------------------------------------------------------------------
(* main(): the strategy selection *)

BrowserOKUpdateNoScreenshot(data) ==
    [status |-> "completed", data |-> data,
     extraction_method |-> "playwright_browser",
     capabilities_used |-> << "browser_automation", "anti_detection",
                              "dom_analysis", "javascript_execution" >>]

\* result.update({...}) of the if branch
BrowserOKUpdate(data) ==
    [status |-> "completed", data |-> data,
     extraction_method |-> "playwright_browser",
     capabilities_used |-> << "browser_automation", "anti_detection",
                              "screenshot_capture", "dom_analysis",
                              "javascript_execution" >>]

FallbackUpdateAlwaysCompleted(data) ==
    [status |-> "completed",
     data |-> data,
     extraction_method |-> "requests_fallback",
     capabilities_used |-> << "http_requests", "basic_parsing" >>]

\* result.update({...}) of the else branch
FallbackUpdate(data) ==
    [status |-> IF data.success THEN "completed" ELSE "failed",
     data |-> data,
     extraction_method |-> "requests_fallback",
     capabilities_used |-> << "http_requests", "basic_parsing" >>]

ExceptUpdateNoStatus(e) ==
    [error |-> Str(e), extraction_method |-> "none"]

\* result.update({...}) of the except Exception branch
ExceptUpdate(e) ==
    [status |-> "failed", error |-> Str(e), extraction_method |-> "none"]

\* if browser_result['success']: result.update({...})
BrowserOK ==
    /\ pc = "check"
    /\ browser_result.success
    /\ result' = Update(result, BrowserOKUpdate(browser_result))
    /\ pc' = "metadata"
    /\ UNCHANGED << target_url, hub_url, api_key, page_javascript, playwright,
                    browser, pending, browser_result, fallback_result, exc,
                    text_length_in, http_calls, save_attempts, results_json,
                    callback_posts, callback_log, raised_from >>

TryHttpFallbackSkipped ==
    /\ pc = "check"
    /\ ~ browser_result.success
    /\ fallback_result' = [success |-> FALSE, error |-> browser_result.error,
                           method |-> "requests_error"]
    /\ pc' = "fallback_update"
    /\ UNCHANGED << target_url, hub_url, api_key, page_javascript, result,
                    playwright, browser, pending, browser_result, exc,
                    text_length_in, http_calls, save_attempts, results_json,
                    callback_posts, callback_log, raised_from >>

\* else: fallback_result = scraper.scrape_with_requests(target_url)
TryHttpFallback ==
    /\ pc = "check"
    /\ ~ browser_result.success
    /\ \E reply \in HttpReplies :
         fallback_result' = scrape_with_requests(target_url, reply)
    /\ http_calls' = Append(http_calls, target_url)
    /\ pc' = "fallback_update"
    /\ UNCHANGED << target_url, hub_url, api_key, page_javascript, result,
                    playwright, browser, pending, browser_result, exc,
                    text_length_in, save_attempts, results_json,
                    callback_posts, callback_log, raised_from >>

\* result.update({...}) after the fallback returned
HttpFallbackDone ==
    /\ pc = "fallback_update"
    /\ result' = Update(result, FallbackUpdate(fallback_result))
    /\ pc' = "metadata"
    /\ UNCHANGED << target_url, hub_url, api_key, page_javascript, playwright,
                    browser, pending, browser_result, fallback_result, exc,
                    text_length_in, http_calls, save_attempts, results_json,
                    callback_posts, callback_log, raised_from >>

\* except Exception as e: result.update({...})
CriticalError ==
    /\ pc = "except"
    /\ result' = Update(result, ExceptUpdate(exc))
    /\ pc' = "metadata"
    /\ UNCHANGED << target_url, hub_url, api_key, page_javascript, playwright,
                    browser, pending, browser_result, fallback_result, exc,
                    text_length_in, http_calls, save_attempts, results_json,
                    callback_posts, callback_log, raised_from >>

----------------------------------------------------------------------------
(* main(): metadata, save, callback *)

\* "javascript" in str(result.get("data", {})): the text of a fetched document
\* is part of the data only when a strategy succeeded.
MentionsJavascript(data) ==
    Get(data, "success", FALSE) /\ page_javascript

\* result["metadata"] = {...}
Metadata(r) ==
    [learning_insights |->
        [site_complexity |->
            IF MentionsJavascript(Get(r, "data", EmptyDict)) THEN "high" ELSE "low",
         extraction_difficulty |->
            IF Get(r, "extraction_method", None) = "playwright_browser"
            THEN "advanced" ELSE "basic"],
     performance |->
        [success_rate |-> IF r["status"] = "completed" THEN 1 ELSE 0]]

AddMetadata ==
    /\ pc = "metadata"
    /\ result' = [result EXCEPT !["metadata"] = Metadata(result)]
    /\ pc' = "save"
    /\ UNCHANGED << target_url, hub_url, api_key, page_javascript, playwright,
                    browser, pending, browser_result, fallback_result, exc,
                    text_length_in, http_calls, save_attempts, results_json,
                    callback_posts, callback_log, raised_from >>

\* with open("results.json", "w") as f: json.dump(result, f, indent=2)
\* The block is not inside a try: an OSError leaves main().
SaveResults ==
    /\ pc = "save"
    /\ save_attempts' = save_attempts + 1
    /\ \E o \in {"ok", "error"} :
         IF o = "ok"
         THEN /\ results_json' = Append(results_json, result)
              /\ pc' = "callback"
              /\ raised_from' = raised_from
         ELSE /\ results_json' = results_json
              /\ pc' = "raised"
              /\ raised_from' = "save"
    /\ UNCHANGED << target_url, hub_url, api_key, page_javascript, result,
                    playwright, browser, pending, browser_result, fallback_result,
                    exc, text_length_in, http_calls, callback_posts, callback_log >>

CallbackConfiguredEither == Truthy(hub_url) \/ Truthy(api_key)

\* if hub_url and api_key:
CallbackConfigured == Truthy(hub_url) /\ Truthy(api_key)

\* requests.post(...) inside try / except Exception
SendCallback ==
    /\ pc = "callback"
    /\ CallbackConfigured
    /\ callback_posts' = Append(callback_posts, result)
    /\ \E o \in {"200", "non200", "raise"} :
         callback_log' = CASE o = "200" -> "Advanced callback sent successfully!"
                           [] o = "non200" -> "Callback failed"
                           [] OTHER -> "Callback error"
    /\ pc' = "done"
    /\ UNCHANGED << target_url, hub_url, api_key, page_javascript, result,
                    playwright, browser, pending, browser_result, fallback_result,
                    exc, text_length_in, http_calls, save_attempts, results_json,
                    raised_from >>

\* the if is false: straight to the final prints
SkipCallback ==
    /\ pc = "callback"
    /\ ~ CallbackConfigured
    /\ pc' = "done"
    /\ UNCHANGED << target_url, hub_url, api_key, page_javascript, result,
                    playwright, browser, pending, browser_result, fallback_result,
                    exc, text_length_in, http_calls, save_attempts, results_json,
                    callback_posts, callback_log, raised_from >>

----------------------------------------------------------------------------

Next ==
    \/ AsyncPlaywright
    \/ Launch
    \/ NewContext
    \/ AddInitScript
    \/ NewPage
    \/ Goto
    \/ Screenshot
    \/ Evaluate
    \/ Finally
    \/ BrowserOK
    \/ TryHttpFallback
    \/ HttpFallbackDone
    \/ CriticalError
    \/ AddMetadata
    \/ SaveResults
    \/ SendCallback
    \/ SkipCallback

Spec == Init /\ [][Next]_vars

TypeOK ==
    /\ pc \in {"async_playwright", "launch", "new_context", "add_init_script",
               "new_page", "goto", "screenshot", "evaluate", "finally", "check",
               "fallback_update", "except", "metadata", "save", "callback",
               "done", "raised"}
    /\ result["status"] \in {"started", "completed", "failed"}
    /\ browser \in {"none", "open", "closed"}
    /\ playwright \in {"none", "started", "stopped"}

----------------------------------------------------------------------------
(* Vocabulary of the properties *)

Terminal(status) == status \in {"completed", "failed"}

\* main() is over: it returned, or an exception left it.
Finished == pc \in {"done", "raised"}

\* Positions inside scrape_with_browser.
BrowserPcs == {"async_playwright", "launch", "new_context", "add_init_script",
               "new_page", "goto", "screenshot", "evaluate", "finally"}

\* Positions after the try/except of main().
AfterPipeline == {"metadata", "save", "callback", "done", "raised"}

BrowserReturned == "success" \in DOMAIN browser_result
BrowserSucceeded == Get(browser_result, "success", FALSE)
BrowserReturnedFailure == BrowserReturned /\ ~ browser_result.success
HttpReturned == "success" \in DOMAIN fallback_result
HttpSucceeded == Get(fallback_result, "success", FALSE)

\* Faults of the steps between launch and the try block.
LaunchFaults == {"chromium launch failed", "new_context failed",
                 "add_init_script failed", "new_page failed"}

Min(a, b) == IF a < b THEN a ELSE b

BrowserTags == {"browser_automation", "anti_detection", "screenshot_capture",
                "dom_analysis", "javascript_execution"}
SpecHttpTags == {"http_requests", "regex_parsing", "content_analysis",
                 "link_extraction", "image_extraction", "structure_analysis"}
CodeHttpTags == {"http_requests", "basic_parsing"}

Caps(r) == Get(r, "capabilities_used", << >>)
Method(r) == Get(r, "extraction_method", None)

----------------------------------------------------------------------------
(* C1: whenever scrape_with_browser has returned success=False, the job    *)
(* status is terminal or results.json has been written only after          *)
(* scrape_with_requests was called, once, with the target URL.             *)
C1_FallbackOrdering ==
    BrowserReturnedFailure =>
        /\ (Terminal(result["status"]) \/ results_json # << >> \/ save_attempts > 0)
              => http_calls = << target_url >>
        /\ pc \in AfterPipeline => HttpReturned

C1_Witness ==
    /\ pc = "done"
    /\ BrowserReturnedFailure
    /\ browser_result.method = "playwright_timeout"
    /\ http_calls = << target_url >>
    /\ Len(results_json) = 1

(* C2: every browser failure (timeout, in-session error, or a fault while  *)
(* launching, creating the context, installing the init script or opening  *)
(* the page) is followed by the HTTP fetch, and no job ends failed without *)
(* the HTTP fetch having been attempted.                                   *)
C2_BrowserFailureNonFatal ==
    /\ (pc \in AfterPipeline /\ (BrowserReturnedFailure \/ exc \in LaunchFaults))
          => http_calls = << target_url >>
    /\ (Finished /\ result["status"] = "failed") => http_calls # << >>

(* C3: every written result with status failed has a non-empty top-level   *)
(* error, and when both strategies failed that error is the HTTP failure   *)
(* detail.                                                                 *)
C3_FailedCarriesError ==
    \A i \in DOMAIN results_json :
        LET r == results_json[i] IN
        r["status"] = "failed" =>
            /\ "error" \in DOMAIN r
            /\ NonEmpty(r["error"])
            /\ (BrowserReturnedFailure /\ HttpReturned /\ ~ HttpSucceeded)
                  => r["error"] = fallback_result.error

(* C4: the result starts as started; whatever is written to results.json   *)
(* has status completed or failed; and a terminal status never changes.    *)
C4_TerminalStatus ==
    /\ result["status"] = "started"
    /\ [](\A i \in DOMAIN results_json : Terminal(results_json[i]["status"]))
    /\ [](pc \in AfterPipeline => Terminal(result["status"]))
    /\ [][Terminal(result["status"]) => result'["status"] = result["status"]]_vars

C4_Witness ==
    /\ pc = "done"
    /\ exc # ""
    /\ Len(results_json) = 1
    /\ results_json[1]["status"] = "failed"
    /\ callback_posts # << >>

(* C5: no exception of the save step or of the callback step leaves        *)
(* main(), and the status stays what the pipeline set.                     *)
C5_ReportingNeverRaises ==
    /\ pc # "raised"
    /\ raised_from \notin {"save", "callback"}
    /\ pc \in {"callback", "done"} => result["status"] = results_json[1]["status"]

C8_MethodAsClaimed ==
    /\ (pc \in AfterPipeline /\ BrowserSucceeded) =>
          /\ Method(result) = "browser"
          /\ Range(Caps(result)) = BrowserTags
    /\ (pc \in AfterPipeline /\ HttpSucceeded) =>
          /\ Method(result) = "http_regex"
          /\ Range(Caps(result)) = SpecHttpTags
    /\ Finished => Method(result) \in {"browser", "http_regex", "none"}

(* C8 amended: after a successful browser fetch extraction_method is       *)
(* playwright_browser with exactly the five browser tags; after the HTTP   *)
(* fallback, successful or not, it is requests_fallback with exactly the   *)
(* tags http_requests and basic_parsing; a final result has one of         *)
(* playwright_browser, requests_fallback, none.                            *)
C8_MethodFollowsBranch ==
    /\ (pc \in AfterPipeline /\ BrowserSucceeded) =>
          /\ Method(result) = "playwright_browser"
          /\ Range(Caps(result)) = BrowserTags
          /\ Len(Caps(result)) = Cardinality(BrowserTags)
    /\ (pc \in AfterPipeline /\ HttpReturned) =>
          /\ Method(result) = "requests_fallback"
          /\ Range(Caps(result)) = CodeHttpTags
          /\ Len(Caps(result)) = Cardinality(CodeHttpTags)
    /\ (pc \in AfterPipeline /\ ~ BrowserReturned) =>
          /\ Method(result) = "none"
          /\ Caps(result) = << >>
    /\ Finished => Method(result) \in {"playwright_browser", "requests_fallback", "none"}

C8_Witness ==
    /\ pc = "done"
    /\ BrowserSucceeded
    /\ Method(result) = "playwright_browser"
    /\ Len(results_json) = 1

(* C9: text_length is the length of the untruncated text and the length of *)
(* text_content is min(text_length, 2000).                                 *)
C9_TruncationLaw ==
    \A d \in {pending, result["data"]} :
        "text_content" \in DOMAIN d =>
            /\ d.text_length = text_length_in
            /\ Len(d.text_content) = Min(d.text_length, TruncLimit)

(* C9 amended: text_length is the length of the untruncated text; a text   *)
(* of at most 2000 characters is returned whole, a longer one as its first *)
(* 2000 characters followed by "...", 2003 characters in all.              *)
C9_TruncationWithEllipsis ==
    \A d \in {pending, result["data"]} :
        "text_content" \in DOMAIN d =>
            /\ d.text_length = text_length_in
            /\ Len(d.text_content) =
                  IF d.text_length > TruncLimit
                  THEN TruncLimit + Len(Ellipsis)
                  ELSE d.text_length
            /\ \A i \in 1..Min(d.text_length, TruncLimit) :
                  d.text_content[i] = MkText(text_length_in)[i]
            /\ d.text_length > TruncLimit =>
                  SubSeq(d.text_content, TruncLimit + 1, TruncLimit + 3) = Ellipsis

C9_Witness ==
    /\ text_length_in = TruncLimit + 1
    /\ "text_content" \in DOMAIN result["data"]
    /\ Len(result["data"].text_content) = TruncLimit + 3
    /\ Len(results_json) = 1

(* C10: what is written to results.json has status completed exactly when  *)
(* its data is the outcome of a strategy that succeeded (the browser's if  *)
(* the browser succeeded, otherwise the HTTP one), and the HTTP fetch is   *)
(* never called when the browser fetch returned success.                   *)
C10_CompletedIffSuccess ==
    /\ \A i \in DOMAIN results_json :
          LET r == results_json[i] IN
          r["status"] = "completed" <=>
              \/ BrowserSucceeded /\ r["data"] = browser_result
              \/ ~ BrowserSucceeded /\ HttpSucceeded /\ r["data"] = fallback_result
    /\ BrowserSucceeded => (http_calls = << >> /\ ~ HttpReturned)

C10_Witness ==
    /\ Len(results_json) = 1
    /\ results_json[1]["status"] = "completed"
    /\ ~ BrowserSucceeded
    /\ results_json[1]["data"] = fallback_result
    /\ fallback_result.status_code = 200

====
